---- MODULE Spec2Model ----
(***************************************************************************)
(* Function-call pipelines of ollama-rs: the TaggedBlock dialect           *)
(* (tiny_agent/request.rs, TinyFunctionCall) and the FencedJSON dialect    *)
(* (gorilla/request.rs, GorillaFunctionCall), both implementing            *)
(* RequestParserBase (pipelines/mod.rs).                                   *)
(*                                                                         *)
(* A string is a sequence of one-character strings, so that trimming,      *)
(* tag search, brace replacement, JSON parsing and JSON serialization are  *)
(* computed character by character as the code computes them.              *)
(***************************************************************************)
EXTENDS Integers, Sequences, FiniteSets, TLC

(***************************************************************************)
(* Evaluation.  Bind(value, Body) is Body(value); the value is computed    *)
(* once, however often Body uses it.                                       *)
(***************************************************************************)
Bind(value, Body(_)) == CHOOSE r \in {Body(v) : v \in {value}} : TRUE

\* the least element of a non-empty set of integers
Min(S) == CHOOSE i \in S : \A j \in S : i <= j

Max(S) == CHOOSE i \in S : \A j \in S : i >= j

(***************************************************************************)
(* String primitives of the Rust standard library used by the pipelines.   *)
(***************************************************************************)

\* s[n..] as a sequence
Drop(s, n) == SubSeq(s, n + 1, Len(s))

Take(s, n) == SubSeq(s, 1, n)

\* str::starts_with
StartsWith(s, p) == Len(p) <= Len(s) /\ SubSeq(s, 1, Len(p)) = p

\* str::ends_with
EndsWith(s, p) == Len(p) <= Len(s) /\ SubSeq(s, Len(s) - Len(p) + 1, Len(s)) = p

\* p occurs in s at position i
MatchAt(s, p, i) == i >= 1 /\ i + Len(p) - 1 <= Len(s) /\ SubSeq(s, i, i + Len(p) - 1) = p

\* first position >= from at which p occurs in s, 0 when there is none (str::find)
IndexOf(str, pat, from) ==
    Bind(<<str, pat>>, LAMBDA a :
        Bind({i \in from..(Len(a[1]) - Len(a[2]) + 1) : MatchAt(a[1], a[2], i)}, LAMBDA found :
            IF found = {} THEN 0 ELSE Min(found)))

\* str::contains
Contains(s, p) == IndexOf(s, p, 1) # 0

\* str::replace: every non-overlapping occurrence of p, left to right
RECURSIVE Replace(_, _, _)
Replace(str, p, r) ==
    Bind(str, LAMBDA s :
        Bind(IndexOf(s, p, 1), LAMBDA i :
            IF i = 0 THEN s
            ELSE Take(s, i - 1) \o r \o Replace(Drop(s, i + Len(p) - 1), p, r)))

\* char::is_whitespace on the characters of the model
IsWhitespace(c) == c \in {" ", "\n", "\t", "\r"}

\* str::trim_start: from the first character that is not whitespace
TrimStart(str) ==
    Bind(str, LAMBDA s :
        Bind({i \in 1..Len(s) : ~IsWhitespace(s[i])}, LAMBDA kept :
            IF kept = {} THEN <<>> ELSE Drop(s, Min(kept) - 1)))

\* str::trim_end: up to the last character that is not whitespace
TrimEnd(str) ==
    Bind(str, LAMBDA s :
        Bind({i \in 1..Len(s) : ~IsWhitespace(s[i])}, LAMBDA kept :
            IF kept = {} THEN <<>> ELSE Take(s, Max(kept))))

\* str::trim
Trim(s) == TrimEnd(TrimStart(s))

\* str::trim_start_matches: removes the prefix repeatedly
RECURSIVE TrimStartMatches(_, _)
TrimStartMatches(str, p) ==
    Bind(str, LAMBDA s :
        IF p # <<>> /\ StartsWith(s, p) THEN TrimStartMatches(Drop(s, Len(p)), p) ELSE s)

\* str::trim_end_matches: removes the suffix repeatedly
RECURSIVE TrimEndMatches(_, _)
TrimEndMatches(str, p) ==
    Bind(str, LAMBDA s :
        IF p # <<>> /\ EndsWith(s, p) THEN TrimEndMatches(Take(s, Len(s) - Len(p)), p) ELSE s)

(***************************************************************************)
(* serde_json::Value.  Every value is a record of the same three fields:   *)
(* t the kind, s the text of a string, number or boolean, kids the members *)
(* of an object (key k, value v) or the elements of an array (k empty).    *)
(* An object holds each key once.                                          *)
(***************************************************************************)
VNull == [t |-> "null", s |-> <<>>, kids |-> <<>>]

VBool(b) == [t |-> "bool", s |-> b, kids |-> <<>>]

VNum(digits) == [t |-> "num", s |-> digits, kids |-> <<>>]

VStr(str) == [t |-> "str", s |-> str, kids |-> <<>>]

VObj(members) == [t |-> "obj", s |-> <<>>, kids |-> members]

VArr(elems) == [t |-> "arr", s |-> <<>>, kids |-> [i \in 1..Len(elems) |-> [k |-> <<>>, v |-> elems[i]]]]

Member(key, val) == [k |-> key, v |-> val]

\* Map::insert: a key already present keeps its place and takes the new value
MapInsert(map, key, val) ==
    Bind(map, LAMBDA members :
        IF \E i \in 1..Len(members) : members[i].k = key
        THEN [i \in 1..Len(members) |->
                 IF members[i].k = key THEN Member(key, val) ELSE members[i]]
        ELSE Append(members, Member(key, val)))

\* Map::get
HasKey(val, key) == val.t = "obj" /\ \E i \in 1..Len(val.kids) : val.kids[i].k = key

MapGet(val, key) == val.kids[CHOOSE i \in 1..Len(val.kids) : val.kids[i].k = key].v

\* PartialEq of Value: objects are equal as maps, whatever their iteration order
RECURSIVE ValueEq(_, _)
ValueEq(a, b) ==
    /\ a.t = b.t
    /\ a.s = b.s
    /\ Len(a.kids) = Len(b.kids)
    /\ IF a.t = "obj"
       THEN \A i \in 1..Len(a.kids) :
               /\ HasKey(b, a.kids[i].k)
               /\ ValueEq(a.kids[i].v, MapGet(b, a.kids[i].k))
       ELSE \A i \in 1..Len(a.kids) : ValueEq(a.kids[i].v, b.kids[i].v)

(***************************************************************************)
(* serde_json::from_str.  The grammar covers whitespace, objects, arrays,  *)
(* strings with the escapes \" \\ \/ \n \t \r, unsigned integers and the   *)
(* literals null, true, false.  A diagnostic is the text of the            *)
(* serde_json error code; its " at line L column C" suffix and the          *)
(* rendering of an unexpected value are left out.                          *)
(***************************************************************************)
ParseOk(val, next) == [ok |-> TRUE, v |-> val, pos |-> next, err |-> <<>>]

ParseErr(msg) == [ok |-> FALSE, v |-> VNull, pos |-> 0, err |-> msg]

EofWhileParsingList == <<"E","O","F"," ","w","h","i","l","e"," ","p","a","r","s","i","n","g"," ","a"," ","l","i","s","t">>

EofWhileParsingObject == <<"E","O","F"," ","w","h","i","l","e"," ","p","a","r","s","i","n","g"," ","a","n"," ","o","b","j","e","c","t">>

EofWhileParsingString == <<"E","O","F"," ","w","h","i","l","e"," ","p","a","r","s","i","n","g"," ","a"," ","s","t","r","i","n","g">>

EofWhileParsingValue == <<"E","O","F"," ","w","h","i","l","e"," ","p","a","r","s","i","n","g"," ","a"," ","v","a","l","u","e">>

ExpectedColon == <<"e","x","p","e","c","t","e","d"," ","GRAVE",":","GRAVE">>

ExpectedListCommaOrEnd == <<"e","x","p","e","c","t","e","d"," ","GRAVE",",","GRAVE"," ","o","r"," ","GRAVE","]","GRAVE">>

ExpectedObjectCommaOrEnd == <<"e","x","p","e","c","t","e","d"," ","GRAVE",",","GRAVE"," ","o","r"," ","GRAVE","}","GRAVE">>

ExpectedSomeIdent == <<"e","x","p","e","c","t","e","d"," ","i","d","e","n","t">>

ExpectedSomeValue == <<"e","x","p","e","c","t","e","d"," ","v","a","l","u","e">>

InvalidEscape == <<"i","n","v","a","l","i","d"," ","e","s","c","a","p","e">>

InvalidNumber == <<"i","n","v","a","l","i","d"," ","n","u","m","b","e","r">>

KeyMustBeAString == <<"k","e","y"," ","m","u","s","t"," ","b","e"," ","a"," ","s","t","r","i","n","g">>

ControlCharacterWhileParsingString == <<"c","o","n","t","r","o","l"," ","c","h","a","r","a","c","t","e","r"," ","(","\\","u","0","0","0","0","-","\\","u","0","0","1","F",")"," ","f","o","u","n","d"," ","w","h","i","l","e"," ","p","a","r","s","i","n","g"," ","a"," ","s","t","r","i","n","g">>

TrailingComma == <<"t","r","a","i","l","i","n","g"," ","c","o","m","m","a">>

TrailingCharacters == <<"t","r","a","i","l","i","n","g"," ","c","h","a","r","a","c","t","e","r","s">>

IsDigit(c) == c \in {"0", "1", "2", "3", "4", "5", "6", "7", "8", "9"}

\* Deserializer::parse_whitespace: the position of the next significant character
SkipWs(s, i) ==
    Bind({j \in i..Len(s) : ~IsWhitespace(s[j])}, LAMBDA stops :
        IF stops = {} THEN Len(s) + 1 ELSE Min(stops))

\* the character an escape letter stands for, "" when the escape is invalid
Unescape(c) ==
    CASE c = "\"" -> "\""
      [] c = "\\" -> "\\"
      [] c = "/" -> "/"
      [] c = "n" -> "\n"
      [] c = "t" -> "\t"
      [] c = "r" -> "\r"
      [] OTHER -> ""

\* the rest of a string whose opening quote has been read; the characters up
\* to the next quote, backslash or control character are taken as they are
RECURSIVE ParseStr(_, _, _)
ParseStr(s, from, acc) ==
    Bind({j \in from..Len(s) : s[j] \in {"\"", "\\", "\n", "\t", "\r"}}, LAMBDA stops :
    Bind(IF stops = {} THEN Len(s) + 1 ELSE Min(stops), LAMBDA i :
    Bind(acc \o SubSeq(s, from, i - 1), LAMBDA text :
        IF i > Len(s) THEN ParseErr(EofWhileParsingString)
        ELSE IF s[i] = "\"" THEN ParseOk(VStr(text), i + 1)
        ELSE IF s[i] = "\\" THEN
            IF i + 1 > Len(s) THEN ParseErr(EofWhileParsingString)
            ELSE IF Unescape(s[i + 1]) = "" THEN ParseErr(InvalidEscape)
            ELSE ParseStr(s, i + 2, Append(text, Unescape(s[i + 1])))
        ELSE ParseErr(ControlCharacterWhileParsingString))))

\* the position after the digits that start at i
DigitsEnd(s, i) ==
    Bind({j \in i..Len(s) : ~IsDigit(s[j])}, LAMBDA stops :
        IF stops = {} THEN Len(s) + 1 ELSE Min(stops))

\* an unsigned integer starting at i; a leading zero cannot be followed by a digit
ParseNum(s, i) ==
    Bind(DigitsEnd(s, i), LAMBDA e :
        IF s[i] = "0" /\ e > i + 1 THEN ParseErr(InvalidNumber)
        ELSE ParseOk(VNum(SubSeq(s, i, e - 1)), e))

\* Deserializer::parse_ident after the first letter of null, true or false
ParseIdent(s, i, word, val) ==
    IF MatchAt(s, word, i) THEN ParseOk(val, i + Len(word))
    ELSE IF i + Len(word) - 1 > Len(s) /\ \A j \in i..Len(s) : s[j] = word[j - i + 1]
    THEN ParseErr(EofWhileParsingValue)
    ELSE ParseErr(ExpectedSomeIdent)

RECURSIVE ParseValue(_, _)
RECURSIVE ParseMembers(_, _, _, _)
RECURSIVE ParseElems(_, _, _, _)

\* Deserializer::deserialize_any with the Value visitor
ParseValue(s, from) ==
    Bind(SkipWs(s, from), LAMBDA i :
        IF i > Len(s) THEN ParseErr(EofWhileParsingValue)
        ELSE IF s[i] = "\"" THEN ParseStr(s, i + 1, <<>>)
        ELSE IF s[i] = "{" THEN ParseMembers(s, i + 1, <<>>, TRUE)
        ELSE IF s[i] = "[" THEN ParseElems(s, i + 1, <<>>, TRUE)
        ELSE IF IsDigit(s[i]) THEN ParseNum(s, i)
        ELSE IF s[i] = "n" THEN ParseIdent(s, i, <<"n","u","l","l">>, VNull)
        ELSE IF s[i] = "t" THEN ParseIdent(s, i, <<"t","r","u","e">>, VBool(<<"t","r","u","e">>))
        ELSE IF s[i] = "f" THEN ParseIdent(s, i, <<"f","a","l","s","e">>, VBool(<<"f","a","l","s","e">>))
        ELSE ParseErr(ExpectedSomeValue))

\* the object or the array has ended before pos
AtEnd(i) == [ok |-> TRUE, v |-> VNull, pos |-> i, err |-> <<"e","n","d">>]

\* MapAccess::next_key_seed: the position of the next key's quote, the end of
\* the object, or a diagnostic
NextKey(s, from, first) ==
    Bind(SkipWs(s, from), LAMBDA i :
        IF i > Len(s) THEN ParseErr(EofWhileParsingObject)
        ELSE IF s[i] = "}" THEN AtEnd(i)
        ELSE IF s[i] = "," /\ ~first THEN
            Bind(SkipWs(s, i + 1), LAMBDA j :
                IF j > Len(s) THEN ParseErr(EofWhileParsingValue)
                ELSE IF s[j] = "\"" THEN ParseOk(VNull, j)
                ELSE IF s[j] = "}" THEN ParseErr(TrailingComma)
                ELSE ParseErr(KeyMustBeAString))
        ELSE IF ~first THEN ParseErr(ExpectedObjectCommaOrEnd)
        ELSE IF s[i] = "\"" THEN ParseOk(VNull, i)
        ELSE ParseErr(KeyMustBeAString))

\* Deserializer::parse_object_colon: the position after the colon, or a diagnostic
ObjectColon(s, from) ==
    Bind(SkipWs(s, from), LAMBDA i :
        IF i > Len(s) THEN ParseErr(EofWhileParsingObject)
        ELSE IF s[i] = ":" THEN ParseOk(VNull, i + 1)
        ELSE ParseErr(ExpectedColon))

\* the members of an object after its opening brace (Value visitor, visit_map)
ParseMembers(s, from, acc, first) ==
    Bind(NextKey(s, from, first), LAMBDA nk :
        IF ~nk.ok THEN nk
        ELSE IF nk.err # <<>> THEN ParseOk(VObj(acc), nk.pos + 1)
        ELSE Bind(ParseStr(s, nk.pos + 1, <<>>), LAMBDA key :
            IF ~key.ok THEN key
            ELSE Bind(ObjectColon(s, key.pos), LAMBDA col :
                IF ~col.ok THEN col
                ELSE Bind(ParseValue(s, col.pos), LAMBDA val :
                    IF ~val.ok THEN val
                    ELSE Bind(MapInsert(acc, key.v.s, val.v), LAMBDA members :
                        ParseMembers(s, val.pos, members, FALSE))))))

\* SeqAccess::next_element_seed: the position of the next element, the end of
\* the array, or a diagnostic
NextElem(s, from, first) ==
    Bind(SkipWs(s, from), LAMBDA i :
        IF i > Len(s) THEN ParseErr(EofWhileParsingList)
        ELSE IF s[i] = "]" THEN AtEnd(i)
        ELSE IF s[i] = "," /\ ~first THEN
            Bind(SkipWs(s, i + 1), LAMBDA j :
                IF j > Len(s) THEN ParseErr(EofWhileParsingValue)
                ELSE IF s[j] = "]" THEN ParseErr(TrailingComma)
                ELSE ParseOk(VNull, j))
        ELSE IF ~first THEN ParseErr(ExpectedListCommaOrEnd)
        ELSE ParseOk(VNull, i))

\* the elements of an array after its opening bracket (Value visitor, visit_seq)
ParseElems(s, from, acc, first) ==
    Bind(NextElem(s, from, first), LAMBDA ne :
        IF ~ne.ok THEN ne
        ELSE IF ne.err # <<>> THEN ParseOk(VArr(acc), ne.pos + 1)
        ELSE Bind(ParseValue(s, ne.pos), LAMBDA val :
            IF ~val.ok THEN val
            ELSE Bind(Append(acc, val.v), LAMBDA elems :
                ParseElems(s, val.pos, elems, FALSE))))

\* Deserializer::end: only whitespace may follow the value
ParseEnd(s, res) ==
    IF ~res.ok THEN res
    ELSE IF SkipWs(s, res.pos) <= Len(s) THEN ParseErr(TrailingCharacters)
    ELSE res

\* serde_json::from_str::<Value>
FromStrValue(str) ==
    Bind(str, LAMBDA s :
        Bind(ParseValue(s, 1), LAMBDA res : ParseEnd(s, res)))

(***************************************************************************)
(* Deserialization of the call signature                                   *)
(*   struct { name: String, arguments: Value }                             *)
(* as serde's derived Deserialize does it on a serde_json deserializer:    *)
(* from an object (fields in any order, unknown fields ignored, a repeated *)
(* field rejected) or from an array of the two fields in order.            *)
(***************************************************************************)
MissingFieldName == <<"m","i","s","s","i","n","g"," ","f","i","e","l","d"," ","GRAVE","n","a","m","e","GRAVE">>

MissingFieldArguments == <<"m","i","s","s","i","n","g"," ","f","i","e","l","d"," ","GRAVE","a","r","g","u","m","e","n","t","s","GRAVE">>

DuplicateFieldName == <<"d","u","p","l","i","c","a","t","e"," ","f","i","e","l","d"," ","GRAVE","n","a","m","e","GRAVE">>

DuplicateFieldArguments == <<"d","u","p","l","i","c","a","t","e"," ","f","i","e","l","d"," ","GRAVE","a","r","g","u","m","e","n","t","s","GRAVE">>

InvalidTypeString == <<"i","n","v","a","l","i","d"," ","t","y","p","e",","," ","e","x","p","e","c","t","e","d"," ","a"," ","s","t","r","i","n","g">>

InvalidTypeStruct(structName) == <<"i","n","v","a","l","i","d"," ","t","y","p","e",","," ","e","x","p","e","c","t","e","d"," ","s","t","r","u","c","t"," ">> \o structName

InvalidLength(n, structName) ==
    <<"i","n","v","a","l","i","d"," ","l","e","n","g","t","h"," ">> \o n \o <<","," ","e","x","p","e","c","t","e","d"," ","s","t","r","u","c","t"," ">> \o structName \o <<" ","w","i","t","h"," ","2"," ","e","l","e","m","e","n","t","s">>

IntentOk(nm, args, next) == [ok |-> TRUE, name |-> nm, arguments |-> args, pos |-> next, err |-> <<>>]

IntentErr(msg) == [ok |-> FALSE, name |-> <<>>, arguments |-> VNull, pos |-> 0, err |-> msg]

\* Deserializer::deserialize_string: a string, or the diagnostic for what stands there
ParseStringField(s, from) ==
    Bind(SkipWs(s, from), LAMBDA i :
        IF i > Len(s) THEN ParseErr(EofWhileParsingValue)
        ELSE IF s[i] = "\"" THEN ParseStr(s, i + 1, <<>>)
        ELSE IF s[i] \in {"{", "["} THEN ParseErr(InvalidTypeString)
        ELSE Bind(ParseValue(s, i), LAMBDA val :
            IF ~val.ok THEN val ELSE ParseErr(InvalidTypeString)))

\* the derived visit_map: st holds the fields read so far
RECURSIVE VisitMap(_, _, _, _)
VisitMap(s, from, first, st) ==
    Bind(NextKey(s, from, first), LAMBDA nk :
        IF ~nk.ok THEN IntentErr(nk.err)
        ELSE IF nk.err # <<>> THEN
            IF ~st.hasName THEN IntentErr(MissingFieldName)
            ELSE IF ~st.hasArgs THEN IntentErr(MissingFieldArguments)
            ELSE IntentOk(st.name, st.arguments, nk.pos + 1)
        ELSE Bind(ParseStr(s, nk.pos + 1, <<>>), LAMBDA key :
            IF ~key.ok THEN IntentErr(key.err)
            ELSE IF key.v.s = <<"n","a","m","e">> /\ st.hasName THEN IntentErr(DuplicateFieldName)
            ELSE IF key.v.s = <<"a","r","g","u","m","e","n","t","s">> /\ st.hasArgs THEN IntentErr(DuplicateFieldArguments)
            ELSE Bind(ObjectColon(s, key.pos), LAMBDA col :
                IF ~col.ok THEN IntentErr(col.err)
                ELSE Bind(IF key.v.s = <<"n","a","m","e">>
                          THEN ParseStringField(s, col.pos)
                          ELSE ParseValue(s, col.pos), LAMBDA val :
                    IF ~val.ok THEN IntentErr(val.err)
                    ELSE Bind(IF key.v.s = <<"n","a","m","e">>
                              THEN [st EXCEPT !.hasName = TRUE, !.name = val.v.s]
                              ELSE IF key.v.s = <<"a","r","g","u","m","e","n","t","s">>
                              THEN [st EXCEPT !.hasArgs = TRUE, !.arguments = val.v]
                              ELSE st, LAMBDA fields :
                        VisitMap(s, val.pos, FALSE, fields))))))

\* Deserializer::end_seq
EndSeq(s, from) ==
    Bind(SkipWs(s, from), LAMBDA i :
        IF i > Len(s) THEN ParseErr(EofWhileParsingList)
        ELSE IF s[i] = "]" THEN ParseOk(VNull, i + 1)
        ELSE IF s[i] = "," THEN
            Bind(SkipWs(s, i + 1), LAMBDA j :
                IF j <= Len(s) /\ s[j] = "]" THEN ParseErr(TrailingComma)
                ELSE ParseErr(TrailingCharacters))
        ELSE ParseErr(TrailingCharacters))

\* the derived visit_seq: name, then arguments
VisitSeq(s, from, structName) ==
    Bind(NextElem(s, from, TRUE), LAMBDA e1 :
        IF ~e1.ok THEN IntentErr(e1.err)
        ELSE IF e1.err # <<>> THEN IntentErr(InvalidLength(<<"0">>, structName))
        ELSE Bind(ParseStringField(s, e1.pos), LAMBDA nm :
            IF ~nm.ok THEN IntentErr(nm.err)
            ELSE Bind(NextElem(s, nm.pos, FALSE), LAMBDA e2 :
                IF ~e2.ok THEN IntentErr(e2.err)
                ELSE IF e2.err # <<>> THEN IntentErr(InvalidLength(<<"1">>, structName))
                ELSE Bind(ParseValue(s, e2.pos), LAMBDA args :
                    IF ~args.ok THEN IntentErr(args.err)
                    ELSE Bind(EndSeq(s, args.pos), LAMBDA end :
                        IF ~end.ok THEN IntentErr(end.err)
                        ELSE IntentOk(nm.v.s, args.v, end.pos))))))

\* Deserializer::deserialize_struct
ParseStruct(s, structName) ==
    Bind(SkipWs(s, 1), LAMBDA i :
        IF i > Len(s) THEN IntentErr(EofWhileParsingValue)
        ELSE IF s[i] = "{" THEN
            VisitMap(s, i + 1, TRUE,
                     [hasName |-> FALSE, name |-> <<>>, hasArgs |-> FALSE, arguments |-> VNull])
        ELSE IF s[i] = "[" THEN VisitSeq(s, i + 1, structName)
        ELSE Bind(ParseValue(s, i), LAMBDA val :
            IF ~val.ok THEN IntentErr(val.err) ELSE IntentErr(InvalidTypeStruct(structName))))

\* serde_json::from_str::<Signature>
FromStrSignature(str, structName) ==
    Bind(str, LAMBDA s :
        Bind(ParseStruct(s, structName), LAMBDA res :
            IF ~res.ok THEN res
            ELSE IF SkipWs(s, res.pos) <= Len(s) THEN IntentErr(TrailingCharacters)
            ELSE res))

TinyFunctionCallSignature == <<"T","i","n","y","F","u","n","c","t","i","o","n","C","a","l","l","S","i","g","n","a","t","u","r","e">>

GorillaFunctionCallSignature == <<"G","o","r","i","l","l","a","F","u","n","c","t","i","o","n","C","a","l","l","S","i","g","n","a","t","u","r","e">>

(***************************************************************************)
(* serde_json::to_string: the compact form.  The members of an object are  *)
(* written in the iteration order of its map, which depends on the map     *)
(* type of the build and, for a HashMap, on its hasher: ord chooses it.    *)
(***************************************************************************)
Orders == {"forward", "backward"}

\* EscapeChar writing every character as it is
EscapeChar_Raw(c) == <<c>>

\* the escape of one character inside a string
EscapeChar(c) ==
    CASE c = "\"" -> <<"\\","\"">>
      [] c = "\\" -> <<"\\","\\">>
      [] c = "\n" -> <<"\\","n">>
      [] c = "\t" -> <<"\\","t">>
      [] c = "\r" -> <<"\\","r">>
      [] OTHER -> <<c>>

\* the escapes of the characters of s, one after the other
RECURSIVE EscapeStr(_)
EscapeStr(str) ==
    Bind(str, LAMBDA s :
        IF Len(s) = 0 THEN <<>>
        ELSE IF Len(s) = 1 THEN EscapeChar(s[1])
        ELSE EscapeStr(Take(s, Len(s) \div 2)) \o EscapeStr(Drop(s, Len(s) \div 2)))

Quoted(s) == <<"\"">> \o EscapeStr(s) \o <<"\"">>

RECURSIVE ToJson(_, _)
RECURSIVE JoinKids(_, _, _, _)

\* the members or elements from index i on, in the order ord, comma separated
JoinKids(val, i, ord, isObj) ==
    IF i > Len(val.kids) THEN <<>>
    ELSE Bind(val.kids[IF ord = "backward" THEN Len(val.kids) + 1 - i ELSE i], LAMBDA kid :
             (IF i > 1 THEN <<",">> ELSE <<>>)
             \o (IF isObj THEN Quoted(kid.k) \o <<":">> ELSE <<>>)
             \o ToJson(kid.v, ord)
             \o JoinKids(val, i + 1, ord, isObj))

ToJson(value, ord) ==
    Bind(value, LAMBDA val :
        CASE val.t = "null" -> <<"n","u","l","l">>
          [] val.t = "str" -> Quoted(val.s)
          [] val.t = "obj" -> <<"{">> \o JoinKids(val, 1, ord, TRUE) \o <<"}">>
          [] val.t = "arr" -> <<"[">> \o JoinKids(val, 1, "forward", FALSE) \o <<"]">>
          [] OTHER -> val.s)


(***************************************************************************)
(* Messages.  OllamaError, ChatMessage and ChatMessageResponse are defined *)
(* outside the pipelines; an OllamaError is the message it was built from  *)
(* and displays as that message.                                           *)
(***************************************************************************)
OllamaErrorFrom(msg) == [message |-> msg]

OllamaErrorToString(error) == error.message

ChatMessageAssistant(text) == [role |-> "assistant", content |-> text]

ChatMessageSystem(text) == [role |-> "system", content |-> text]

ChatMessageResponse(modelName, msg) ==
    [model |-> modelName, created_at |-> <<>>, message |-> msg, done |-> TRUE, final_data |-> "None"]

Ok(resp) == [ok |-> TRUE, resp |-> resp]

Err(resp) == [ok |-> FALSE, resp |-> resp]

(***************************************************************************)
(* The registry: tools in order.  A tool is its name(), description() and  *)
(* parameters(); what run() returns is decided by the tool, not by the     *)
(* pipeline.                                                               *)
(***************************************************************************)
Tool(nm, descr, params) == [name |-> nm, description |-> descr, parameters |-> params]

\* FindTool taking the last tool of the name instead of the first
FindTool_Last(tools, nm) ==
    Bind({i \in 1..Len(tools) : tools[i].name = nm}, LAMBDA found :
        IF found = {} THEN 0 ELSE Max(found))

\* tools.iter().find(|t| t.name() == response.name): the first index, 0 for None
FindTool(tools, nm) ==
    Bind({i \in 1..Len(tools) : tools[i].name = nm}, LAMBDA found :
        IF found = {} THEN 0 ELSE Min(found))

(***************************************************************************)
(* TaggedBlock dialect: tiny_agent/request.rs                              *)
(***************************************************************************)
TOOL_CALL_OPEN == <<"<","t","o","o","l","_","c","a","l","l",">">>

TOOL_CALL_CLOSE == <<"<","/","t","o","o","l","_","c","a","l","l",">">>

Some(s) == [some |-> TRUE, s |-> s]

None == [some |-> FALSE, s |-> <<>>]

\* Regex (?s)<tool_call>(.*?)</tool_call>: capture 1 of the leftmost match
RegexCapture(content) ==
    Bind(IndexOf(content, TOOL_CALL_OPEN, 1), LAMBDA open :
        IF open = 0 THEN None
        ELSE Bind(IndexOf(content, TOOL_CALL_CLOSE, open + Len(TOOL_CALL_OPEN)), LAMBDA close :
            IF close = 0 THEN None
            ELSE Some(SubSeq(content, open + Len(TOOL_CALL_OPEN), close - 1))))

\* extract_tool_call falling back to the whole content when no region is found
Tiny_extract_tool_call_Fallback(content) ==
    Bind(RegexCapture(content), LAMBDA captures :
        Some(Replace(Replace(Replace(IF captures.some THEN captures.s ELSE content,
                                     <<"\n">>, <<>>), <<"{","{">>, <<"{">>), <<"}","}">>, <<"}">>)))

Tiny_extract_tool_call(content) ==
    Bind(RegexCapture(content), LAMBDA captures :
        IF captures.some
        THEN Some(Replace(Replace(Replace(captures.s, <<"\n">>, <<>>), <<"{","{">>, <<"{">>), <<"}","}">>, <<"}">>))
        ELSE None)

Tiny_format_tool_response(function_response) ==
    <<"<","t","o","o","l","_","r","e","s","p","o","n","s","e",">","\n">> \o function_response \o <<"\n","<","/","t","o","o","l","_","r","e","s","p","o","n","s","e",">","\n">>

Tiny_error_handler(error) ==
    ChatMessageResponse(<<>>, ChatMessageAssistant(
        <<"<","t","o","o","l","_","r","e","s","p","o","n","s","e",">","\n","T","h","e","r","e"," ","w","a","s"," ","a","n"," ","e","r","r","o","r"," ","p","a","r","s","i","n","g"," ","f","u","n","c","t","i","o","n"," ","c","a","l","l","s","\n"," ","H","e","r","e","'","s"," ","t","h","e"," ","e","r","r","o","r"," ","s","t","a","c","k"," ","t","r","a","c","e",":"," ">>
        \o OllamaErrorToString(error)
        \o <<"\n","P","l","e","a","s","e"," ","c","a","l","l"," ","t","h","e"," ","f","u","n","c","t","i","o","n"," ","a","g","a","i","n"," ","w","i","t","h"," ","c","o","r","r","e","c","t"," ","s","y","n","t","a","x","<","/","t","o","o","l","_","r","e","s","p","o","n","s","e",">">>))

\* function_call_with_history returning the tool's error without error_handler
Tiny_function_call_with_history_Bare(model_name, outcome) ==
    IF outcome.ok
    THEN Ok(ChatMessageResponse(model_name, ChatMessageAssistant(Tiny_format_tool_response(outcome.text))))
    ELSE Err(ChatMessageResponse(<<>>, ChatMessageAssistant(outcome.text)))

\* the outcome of tool.run(tool_params).await turned into the result of the call
Tiny_function_call_with_history(model_name, outcome) ==
    IF outcome.ok
    THEN Ok(ChatMessageResponse(model_name, ChatMessageAssistant(Tiny_format_tool_response(outcome.text))))
    ELSE Err(Tiny_error_handler(OllamaErrorFrom(outcome.text)))

\* parse up to its only suspension point: either the failure it returns, or
\* the tool and arguments it is about to run; steps lists what it went through
\* the result slot while the selected tool's run is awaited
Pending == Err(ChatMessageResponse(<<>>, ChatMessageAssistant(<<>>)))

Returns(res, went) ==
    [run |-> FALSE, tool |-> 0, tool_params |-> VNull, steps |-> went, result |-> res]

Awaits(tool, tool_params, went) ==
    [run |-> TRUE, tool |-> tool, tool_params |-> tool_params, steps |-> went,
     result |-> Pending]

Tiny_parse(input, tools) ==
    Bind(Tiny_extract_tool_call(input), LAMBDA tool_response :
        IF ~tool_response.some THEN
            Returns(Err(Tiny_error_handler(OllamaErrorFrom(<<"E","r","r","o","r"," ","w","h","i","l","e"," ","e","x","t","r","a","c","t","i","n","g"," ","<","t","o","o","l","_","c","a","l","l",">"," ","t","a","g","s",".">>))),
                    <<"extract">>)
        ELSE Bind(FromStrSignature(tool_response.s, TinyFunctionCallSignature), LAMBDA response_value :
            IF ~response_value.ok THEN
                Returns(Err(Tiny_error_handler(OllamaErrorFrom(response_value.err))),
                        <<"extract", "from_str">>)
            ELSE Bind(FindTool(tools, response_value.name), LAMBDA tool :
                IF tool = 0 THEN
                    Returns(Err(Tiny_error_handler(OllamaErrorFrom(<<"T","o","o","l"," ","n","a","m","e"," ","n","o","t"," ","f","o","u","n","d">>))),
                            <<"extract", "from_str", "find">>)
                ELSE Awaits(tool, response_value.arguments,
                            <<"extract", "from_str", "find", "run">>))))

\* format_query left at the default of the trait
Tiny_format_query_Default(input) == input

Tiny_format_query(input) ==
    input \o <<"\n","T","h","i","s"," ","i","s"," ","t","h","e"," ","f","i","r","s","t"," ","t","u","r","n"," ","a","n","d"," ","y","o","u"," ","d","o","n","'","t"," ","h","a","v","e"," ","<","t","o","o","l","_","r","e","s","u","l","t","s",">"," ","t","o"," ","a","n","a","l","y","z","e"," ","y","e","t">>

Tiny_format_response(response) == <<"A","g","e","n","t"," ","i","t","e","r","a","t","i","o","n"," ","t","o"," ","a","s","s","i","s","t"," ","w","i","t","h"," ","u","s","e","r"," ","q","u","e","r","y",":"," ">> \o response

(***************************************************************************)
(* FencedJSON dialect: gorilla/request.rs                                  *)
(***************************************************************************)
\* clean_tool_call removing the markers before any whitespace
Gorilla_clean_tool_call_MarkersFirst(json_str) ==
    Trim(TrimEndMatches(TrimStartMatches(json_str, <<"GRAVE","GRAVE","GRAVE","j","s","o","n">>), <<"GRAVE","GRAVE","GRAVE">>))

Gorilla_clean_tool_call(json_str) ==
    Trim(TrimEndMatches(TrimStartMatches(Trim(json_str), <<"GRAVE","GRAVE","GRAVE","j","s","o","n">>), <<"GRAVE","GRAVE","GRAVE">>))

\* error_handler wrapping the message in response tags as the TaggedBlock dialect does
Gorilla_error_handler_Wrapped(error) ==
    ChatMessageResponse(<<>>, ChatMessageAssistant(
        <<"<","t","o","o","l","_","r","e","s","p","o","n","s","e",">","\n">> \o OllamaErrorToString(error) \o <<"<","/","t","o","o","l","_","r","e","s","p","o","n","s","e",">">>))

Gorilla_error_handler(error) ==
    ChatMessageResponse(<<>>, ChatMessageAssistant(OllamaErrorToString(error)))

Gorilla_function_call_with_history(model_name, outcome) ==
    IF outcome.ok
    THEN Ok(ChatMessageResponse(model_name, ChatMessageAssistant(outcome.text)))
    ELSE Err(Gorilla_error_handler(OllamaErrorFrom(outcome.text)))

Gorilla_parse(input, tools) ==
    Bind(FromStrSignature(Gorilla_clean_tool_call(input), GorillaFunctionCallSignature), LAMBDA response_value :
        IF ~response_value.ok THEN
            Returns(Err(Gorilla_error_handler(OllamaErrorFrom(response_value.err))),
                    <<"extract", "from_str">>)
        ELSE Bind(FindTool(tools, response_value.name), LAMBDA tool :
            IF tool = 0 THEN
                Returns(Err(Gorilla_error_handler(OllamaErrorFrom(<<"T","o","o","l"," ","n","o","t"," ","f","o","u","n","d">>))),
                        <<"extract", "from_str", "find">>)
            ELSE Awaits(tool, response_value.arguments,
                        <<"extract", "from_str", "find", "run">>)))

\* RequestParserBase::format_query, the default the dialect does not override
Base_format_query(input) == input

\* RequestParserBase::format_response, the default
Base_format_response(response) == response

(***************************************************************************)
(* Advertisement of the registry in the system message (both dialects)     *)
(***************************************************************************)
convert_to_openai_tool(tool) ==
    LET function == MapInsert(MapInsert(MapInsert(<<>>,
                        <<"n","a","m","e">>, VStr(tool.name)),
                        <<"d","e","s","c","r","i","p","t","i","o","n">>, VStr(tool.description)),
                        <<"p","a","r","a","m","e","t","e","r","s">>, tool.parameters)
    IN  VObj(MapInsert(MapInsert(<<>>,
                <<"t","y","p","e">>, VStr(<<"f","u","n","c","t","i","o","n">>)),
                <<"f","u","n","c","t","i","o","n">>, VObj(function)))

\* the two templates are fixed texts with the placeholder {tools}
Tiny_DEFAULT_SYSTEM_TEMPLATE == <<"<","t","o","o","l","s",">"," ","{","t","o","o","l","s","}"," ","<","/","t","o","o","l","s",">","\n","U","s","e"," ","<","t","o","o","l","_","c","a","l","l",">",".">>

OpenAI_DEFAULT_SYSTEM_TEMPLATE == <<"T","o","o","l","s",":","\n","{","t","o","o","l","s","}","\n","A","n","s","w","e","r"," ","i","n"," ","J","S","O","N",".">>

ToolsJson(tools, ord) ==
    ToJson(VArr([i \in 1..Len(tools) |-> convert_to_openai_tool(tools[i])]), ord)

Tiny_get_system_message(tools, ord) ==
    ChatMessageSystem(Replace(Tiny_DEFAULT_SYSTEM_TEMPLATE, <<"{","t","o","o","l","s","}">>, ToolsJson(tools, ord)))

Gorilla_get_system_message(tools, ord) ==
    ChatMessageSystem(Replace(OpenAI_DEFAULT_SYSTEM_TEMPLATE, <<"{","t","o","o","l","s","}">>, ToolsJson(tools, ord)))


(***************************************************************************)
(* Bounds and the inputs the calls are drawn from                          *)
(***************************************************************************)
\* the longest sequence of format_query calls of one conversation
MaxTurns == 3

\* the largest number of adjacent fence markers on one side of a body
MaxFences == 2

Dialects == {"tiny", "gorilla"}

ModelNames == {<<>>, <<"l","l","a","m","a">>}

ParamsObject == VObj(<<Member(<<"t","y","p","e">>, VStr(<<"o","b","j","e","c","t">>)),
                       Member(<<"p","r","o","p","e","r","t","i","e","s">>, VObj(<<Member(<<"q">>, VStr(<<"a"," ","\"","b","\""," ","\\">>))>>))>>)

ToolGet == Tool(<<"g","e","t">>, <<"C","u","r","r","e","n","t"," ","\"","w","e","a","t","h","e","r","\"","\n">>, ParamsObject)

ToolGetUpper == Tool(<<"G","e","t">>, <<"d">>, VNull)

ToolGetAgain == Tool(<<"g","e","t">>, <<"s","h","a","d","o","w","e","d">>, VArr(<<VNum(<<"1">>), VBool(<<"t","r","u","e">>)>>))

Registries ==
    { <<>>,
      <<ToolGet>>,
      <<ToolGetUpper, ToolGet>>,
      <<ToolGetUpper, ToolGet, ToolGetAgain>> }

\* what a tool's run can return: Ok(text) or Err(error displaying as text)
RunOutcomes ==
    { [ok |-> TRUE, text |-> <<"2","2","C">>],
      [ok |-> TRUE, text |-> <<>>],
      [ok |-> FALSE, text |-> <<"b","o","o","m">>] }

\* bodies a model may put in its answer
Bodies ==
    { <<"{","\"","n","a","m","e","\"",":"," ","\"","g","e","t","\"",","," ","\"","a","r","g","u","m","e","n","t","s","\"",":"," ","{","}","}">>,
      <<"{","\"","n","a","m","e","\"",":","\"","g","e","t","\"",",","\"","a","r","g","u","m","e","n","t","s","\"",":","1","}">>,
      <<"{","\"","n","a","m","e","\"",":","\"","g","e","t","\"",",","\"","a","r","g","u","m","e","n","t","s","\"",":","{","\"","q","\"",":","\"","x","\"","}"," ","}">>,
      <<"{","\"","n","a","m","e","\"",":","\"","G","e","t","\"",",","\"","a","r","g","u","m","e","n","t","s","\"",":","{","\"","a","\"",":","{","\"","b","\"",":","[","1","]","}","}","}">>,
      <<"{","\"","a","r","g","u","m","e","n","t","s","\"",":","n","u","l","l",",","\n"," ","\"","n","a","m","e","\"",":","\"","G","e","t","\"","}">>,
      <<"{","\"","n","a","m","e","\"",":","\"","g","e","t","\"",",","\"","a","r","g","u","m","e","n","t","s","\"",":","\"","a","\n","b","\"","}">>,
      <<"{","{","\"","n","a","m","e","\"",":","\"","g","e","t","\"",",","\"","a","r","g","u","m","e","n","t","s","\"",":","1","}","}">>,
      <<"{","{","\"","n","a","m","e","\"",":","\"","g","e","t","\"",",","\"","a","r","g","u","m","e","n","t","s","\"",":","{","{","\"","q","\"",":","1","}","}","}","}">>,
      <<"[","\"","g","e","t","\"",","," ","{","}","]">>,
      <<"{","\"","n","a","m","e","\"",":","\"","m","i","s","s","i","n","g","\"",",","\"","a","r","g","u","m","e","n","t","s","\"",":","{","}","}">>,
      <<"{","\"","n","a","m","e","\"",":","\"","G","E","T","\"",",","\"","a","r","g","u","m","e","n","t","s","\"",":","1","}">>,
      <<"{","\"","n","a","m","e","\"",":","\"","g","e","t","\"","}">>,
      <<"{","\"","n","a","m","e","\"",":","1",",","\"","a","r","g","u","m","e","n","t","s","\"",":","1","}">>,
      <<"n","o","t"," ","j","s","o","n">>,
      <<>> }

TinyInputs ==
    { pre \o mid \o post :
        pre \in {<<>>, <<"o","k"," ">>},
        mid \in UNION { { b, TOOL_CALL_OPEN \o b, TOOL_CALL_OPEN \o b \o TOOL_CALL_CLOSE } : b \in Bodies },
        post \in {<<>>, <<" ","<","t","o","o","l","_","c","a","l","l",">","{","\"","n","a","m","e","\"",":","\"","G","e","t","\"",",","\"","a","r","g","u","m","e","n","t","s","\"",":","2","}","<","/","t","o","o","l","_","c","a","l","l",">">>} }

GorillaInputs ==
    UNION { { b, <<"GRAVE","GRAVE","GRAVE","j","s","o","n","\n">> \o b \o <<"\n","GRAVE","GRAVE","GRAVE">>, <<" ","\n","GRAVE","GRAVE","GRAVE","j","s","o","n">> \o b \o <<"GRAVE","GRAVE","GRAVE","\n">> } : b \in Bodies }

Inputs(d) == IF d = "tiny" THEN TinyInputs ELSE GorillaInputs

QueryTexts == {<<>>, <<"h","i">>, <<"w","e","a","t","h","e","r","?","\n">>}

(***************************************************************************)
(* State                                                                   *)
(***************************************************************************)
VARIABLES
    tools,      \* the registry passed to the calls
    call,       \* the arguments of the parse call: dialect, input, model_name
    pc,         \* "idle": parse not yet called; "running": parse awaits tool.run; "done"
    pending,    \* the tool and the arguments of the awaited run
    runs,       \* the tools whose run the call has started, in order
    steps,      \* what the call went through: extract, from_str, find, run
    outcome,    \* what the awaited run returned
    result,     \* the Result parse returned
    last,       \* the application of one of the text functions
    fqLog       \* the format_query calls of the conversation, in order

vars == <<tools, call, pc, pending, runs, steps, outcome, result, last, fqLog>>

NoCall == [dialect |-> "none", input |-> <<>>, model_name |-> <<>>]

NoPending == [tool |-> 0, tool_params |-> VNull]

NoOutcome == [ok |-> FALSE, text |-> <<>>]


NoOp ==
    [op |-> "none", applied |-> FALSE, dialect |-> "none", arg |-> <<>>, body |-> <<>>,
     doubled |-> FALSE, opens |-> 0, closes |-> 0, ord |-> "forward",
     some |-> FALSE, role |-> "none", out |-> <<>>]

ParseIdle ==
    /\ pc = "idle"
    /\ pending = NoPending
    /\ runs = <<>>
    /\ steps = <<>>
    /\ outcome = NoOutcome
    /\ result = Pending

\* a parse call about to be made
Init ==
    /\ tools \in Registries
    /\ \E d \in Dialects :
          call \in [dialect : {d}, input : Inputs(d), model_name : ModelNames]
    /\ ParseIdle
    /\ last = NoOp
    /\ fqLog = <<>>

(***************************************************************************)
(* RequestParserBase::parse                                                *)
(***************************************************************************)
\* parse runs from its call to its return or to the await of tool.run
Parse ==
    /\ pc = "idle"
    /\ \E p \in {IF call.dialect = "tiny"
                 THEN Tiny_parse(call.input, tools)
                 ELSE Gorilla_parse(call.input, tools)} :
           /\ steps' = p.steps
           /\ IF p.run
              THEN /\ pc' = "running"
                   /\ pending' = [tool |-> p.tool, tool_params |-> p.tool_params]
                   /\ runs' = Append(runs, p.tool)
                   /\ result' = result
              ELSE /\ pc' = "done"
                   /\ pending' = pending
                   /\ runs' = runs
                   /\ result' = p.result
    /\ UNCHANGED <<tools, call, outcome, last, fqLog>>

\* the awaited run returns o and function_call_with_history builds the result
ToolReturn(o) ==
    /\ pc = "running"
    /\ outcome' = o
    /\ result' = IF call.dialect = "tiny"
                 THEN Tiny_function_call_with_history(call.model_name, o)
                 ELSE Gorilla_function_call_with_history(call.model_name, o)
    /\ pc' = "done"
    /\ UNCHANGED <<tools, call, pending, runs, steps, last, fqLog>>

Next ==
    \/ Parse
    \/ \E o \in RunOutcomes : ToolReturn(o)

Spec == Init /\ [][Next]_vars


(***************************************************************************)
(* The text functions applied to one drawn input each                      *)
(***************************************************************************)
FENCE_OPEN == <<"GRAVE","GRAVE","GRAVE","j","s","o","n">>

FENCE_CLOSE == <<"GRAVE","GRAVE","GRAVE">>

RECURSIVE Repeat(_, _)
Repeat(s, n) == IF n = 0 THEN <<>> ELSE s \o Repeat(s, n - 1)

\* the body with every brace doubled, as a model echoing a format string writes it
Doubled(b) == Replace(Replace(b, <<"{">>, <<"{","{">>), <<"}">>, <<"}","}">>)

TagBodies ==
    { <<"{","\"","n","a","m","e","\"",":"," ","\"","x","\"","}">>,
      <<"{","\"","n","a","m","e","\"",":","\"","x","\"",",","\"","a","r","g","u","m","e","n","t","s","\"",":","{","\"","a","\"",":","1","}","}">>,
      <<"{","\"","n","a","m","e","\"",":"," ","\"","g","e","t","_","w","e","a","t","h","e","r","\"",","," ","\"","a","r","g","u","m","e","n","t","s","\"",":"," ","{","}","}">>,
      <<"{","\n"," ","\"","n","a","m","e","\"",":"," ","\"","x","\"",",","\n"," ","\"","a","r","g","u","m","e","n","t","s","\"",":"," ","{","\"","a","\"",":"," ","{","\"","b","\"",":"," ","2","}"," ","}","\n","}">>,
      <<"[","1",","," ","{","\"","a","\"",":"," ","[","]"," ","}","]">>,
      <<"\"","x","\"">>,
      <<"n","o","t"," ","j","s","o","n">> }

ExtractRequests ==
    { [NoOp EXCEPT !.op = "extract_tool_call", !.body = b, !.doubled = dbl,
                   !.arg = pre \o (IF dbl THEN Doubled(b) ELSE b) \o post] :
        b \in TagBodies, dbl \in BOOLEAN,
        pre \in {<<>>, TOOL_CALL_OPEN, <<"I"," ","c","a","l","l","\n","<","t","o","o","l","_","c","a","l","l",">">>},
        post \in {<<>>, TOOL_CALL_CLOSE, <<"<","/","t","o","o","l","_","c","a","l","l",">"," ","a","n","d"," ","<","t","o","o","l","_","c","a","l","l",">","1","<","/","t","o","o","l","_","c","a","l","l",">">>} }

FenceBodies ==
    { <<"{","\"","n","a","m","e","\"",":","\"","g","e","t","\"",",","\"","a","r","g","u","m","e","n","t","s","\"",":","{","}","}">>,
      <<"{","\n"," ","\"","n","a","m","e","\"",":"," ","\"","g","e","t","\""," ","}">>,
      <<"{","{","\"","a","\"",":","1","}","}">>,
      <<"GRAVE","GRAVE","x","GRAVE">>,
      <<>>,
      <<"GRAVE","GRAVE","GRAVE","j","s","o","n","{","}">>,
      <<"{","}","GRAVE","GRAVE","GRAVE">>,
      <<"{","}","\n">> }

Spaces == {<<>>, <<" ">>, <<"\n","\t">>}

CleanRequests ==
    { [NoOp EXCEPT !.op = "clean_tool_call", !.body = b, !.opens = k, !.closes = m,
                   !.arg = ws[1] \o Repeat(FENCE_OPEN, k) \o ws[2] \o b
                           \o ws[3] \o Repeat(FENCE_CLOSE, m) \o ws[4]] :
        b \in FenceBodies, k \in 0..MaxFences, m \in 0..MaxFences,
        ws \in [1..4 -> Spaces] }

SystemMessageRequests ==
    { [NoOp EXCEPT !.op = "get_system_message", !.dialect = d, !.ord = o] :
        d \in Dialects, o \in Orders }

InitText ==
    /\ \/ tools = <<>> /\ last \in ExtractRequests
       \/ tools = <<>> /\ last \in CleanRequests
       \/ tools \in Registries /\ last \in SystemMessageRequests
    /\ call = NoCall
    /\ ParseIdle
    /\ fqLog = <<>>

ExtractToolCall ==
    /\ last.op = "extract_tool_call" /\ ~last.applied
    /\ \E r \in {Tiny_extract_tool_call(last.arg)} :
           last' = [last EXCEPT !.applied = TRUE, !.some = r.some, !.out = r.s]
    /\ UNCHANGED <<tools, call, pc, pending, runs, steps, outcome, result, fqLog>>

CleanToolCall ==
    /\ last.op = "clean_tool_call" /\ ~last.applied
    /\ last' = [last EXCEPT !.applied = TRUE, !.some = TRUE,
                            !.out = Gorilla_clean_tool_call(last.arg)]
    /\ UNCHANGED <<tools, call, pc, pending, runs, steps, outcome, result, fqLog>>

GetSystemMessage ==
    /\ last.op = "get_system_message" /\ ~last.applied
    /\ \E msg \in {IF last.dialect = "tiny"
                   THEN Tiny_get_system_message(tools, last.ord)
                   ELSE Gorilla_get_system_message(tools, last.ord)} :
           last' = [last EXCEPT !.applied = TRUE, !.some = TRUE,
                                !.role = msg.role, !.out = msg.content]
    /\ UNCHANGED <<tools, call, pc, pending, runs, steps, outcome, result, fqLog>>

NextText ==
    \/ ExtractToolCall
    \/ CleanToolCall
    \/ GetSystemMessage

SpecText == InitText /\ [][NextText]_vars

(***************************************************************************)
(* The format_query calls of one conversation                              *)
(***************************************************************************)
InitQuery ==
    /\ tools = <<>>
    /\ call = NoCall
    /\ ParseIdle
    /\ last = NoOp
    /\ fqLog = <<>>

FormatQuery(d, text) ==
    /\ Len(fqLog) < MaxTurns
    /\ fqLog' = Append(fqLog,
                   [dialect |-> d, input |-> text,
                    out |-> IF d = "tiny" THEN Tiny_format_query(text) ELSE Base_format_query(text)])
    /\ UNCHANGED <<tools, call, pc, pending, runs, steps, outcome, result, last>>

NextQuery == \E d \in Dialects, text \in QueryTexts : FormatQuery(d, text)

SpecQuery == InitQuery /\ [][NextQuery]_vars


(***************************************************************************)
(* Properties of parse (specification Spec)                                *)
(***************************************************************************)
Content == result.resp.message.content

\* the text the dialect hands to serde_json::from_str, None when extraction fails
Extracted ==
    IF call.dialect = "tiny"
    THEN Tiny_extract_tool_call(call.input)
    ELSE Some(Gorilla_clean_tool_call(call.input))

StructName == IF call.dialect = "tiny" THEN TinyFunctionCallSignature ELSE GorillaFunctionCallSignature

\* the intent the call reads from its input
Intent == FromStrSignature(Extracted.s, StructName)

Registered(nm) == \E i \in 1..Len(tools) : tools[i].name = nm

\* the first tagged region of the input, as written, holds a well-formed
\* intent naming a tool of the registry
WellFormedRegisteredRegion ==
    LET region == RegexCapture(call.input)
        sig == FromStrSignature(region.s, TinyFunctionCallSignature)
    IN  region.some /\ sig.ok /\ Registered(sig.name)

\* every diagnostic serde_json::from_str can give in the model
SerdeDiagnostics ==
    { EofWhileParsingList, EofWhileParsingObject, EofWhileParsingString, EofWhileParsingValue,
      ExpectedColon, ExpectedListCommaOrEnd, ExpectedObjectCommaOrEnd, ExpectedSomeIdent,
      ExpectedSomeValue, InvalidEscape, InvalidNumber, KeyMustBeAString,
      ControlCharacterWhileParsingString, TrailingComma, TrailingCharacters,
      MissingFieldName, MissingFieldArguments, DuplicateFieldName, DuplicateFieldArguments,
      InvalidTypeString, <<"i","n","v","a","l","i","d"," ","t","y","p","e",","," ","e","x","p","e","c","t","e","d"," ","s","t","r","u","c","t">>, <<"i","n","v","a","l","i","d"," ","l","e","n","g","t","h">> }

\* C1: TaggedBlock parse of an input whose first <tool_call> region holds a
\* well-formed intent naming a registered tool runs that tool and, when the
\* run returns the text r, returns Ok with the assistant message
\* "<tool_response>\n" + r + "\n</tool_response>\n".
C1_WrappedToolResult ==
    (pc = "done" /\ call.dialect = "tiny" /\ WellFormedRegisteredRegion) =>
        /\ runs # <<>>
        /\ outcome.ok =>
              /\ result.ok
              /\ result.resp.message =
                    [role |-> "assistant",
                     content |-> <<"<","t","o","o","l","_","r","e","s","p","o","n","s","e",">","\n">> \o outcome.text \o <<"\n","<","/","t","o","o","l","_","r","e","s","p","o","n","s","e",">","\n">>]

\* C2: FencedJSON parse of an input that parses to an intent whose name no
\* tool of the registry has returns Err with the content "Tool not found",
\* nothing before or after it, and runs no tool.
C2_ToolNotFound ==
    (pc = "done" /\ call.dialect = "gorilla" /\ Intent.ok /\ ~Registered(Intent.name)) =>
        /\ ~result.ok
        /\ Content = <<"T","o","o","l"," ","n","o","t"," ","f","o","u","n","d">>
        /\ runs = <<>>

C2_Witness ==
    /\ pc = "done" /\ call.dialect = "gorilla"
    /\ Intent.ok /\ ~Registered(Intent.name)
    /\ tools # <<>>
    /\ StartsWith(call.input, FENCE_OPEN)

\* C3: TaggedBlock parse of an input without any <tool_call> tag returns Err
\* with the "Error while extracting <tool_call> tags." feedback, no
\* JSON-parse diagnostic and no unknown-tool message; it attempts neither the
\* structural parse nor the lookup and runs no tool.
C3_TagNotFound ==
    (pc = "done" /\ call.dialect = "tiny" /\ ~Contains(call.input, TOOL_CALL_OPEN)) =>
        /\ ~result.ok
        /\ Contains(Content, <<"E","r","r","o","r"," ","w","h","i","l","e"," ","e","x","t","r","a","c","t","i","n","g"," ","<","t","o","o","l","_","c","a","l","l",">"," ","t","a","g","s",".">>)
        /\ ~Contains(Content, <<"T","o","o","l"," ","n","a","m","e"," ","n","o","t"," ","f","o","u","n","d">>)
        /\ \A d \in SerdeDiagnostics : ~Contains(Content, d)
        /\ steps = <<"extract">>
        /\ runs = <<>>

C3_Witness ==
    /\ pc = "done" /\ call.dialect = "tiny"
    /\ ~Contains(call.input, TOOL_CALL_OPEN)
    /\ FromStrSignature(call.input, TinyFunctionCallSignature).ok
    /\ tools # <<>>

\* the diagnostic underlying the failure of a finished TaggedBlock call
UnderlyingDiagnostic ==
    CASE steps = <<"extract">> -> <<"E","r","r","o","r"," ","w","h","i","l","e"," ","e","x","t","r","a","c","t","i","n","g"," ","<","t","o","o","l","_","c","a","l","l",">"," ","t","a","g","s",".">>
      [] steps = <<"extract", "from_str">> -> Intent.err
      [] steps = <<"extract", "from_str", "find">> -> <<"T","o","o","l"," ","n","a","m","e"," ","n","o","t"," ","f","o","u","n","d">>
      [] OTHER -> outcome.text

\* C5: every Err of TaggedBlock parse (tag not found, malformed intent,
\* unknown tool, failed run) is an assistant message whose content starts
\* with "<tool_response>", ends with "</tool_response>" and contains the
\* underlying diagnostic verbatim.
C5_ErrorsWrapped ==
    (pc = "done" /\ call.dialect = "tiny" /\ ~result.ok) =>
        /\ StartsWith(Content, <<"<","t","o","o","l","_","r","e","s","p","o","n","s","e",">">>)
        /\ EndsWith(Content, <<"<","/","t","o","o","l","_","r","e","s","p","o","n","s","e",">">>)
        /\ Contains(Content, UnderlyingDiagnostic)
        /\ result.resp.message.role = "assistant"

C5_Witness ==
    /\ pc = "done" /\ call.dialect = "tiny" /\ ~result.ok
    /\ steps = <<"extract", "from_str", "find", "run">>
    /\ outcome.text = <<"b","o","o","m">>

\* C6: the response of a parse call carries the same turn metadata on
\* failure as on success: the model_name passed to parse, an empty
\* created_at, done, and no final_data.
C6_SameMetadata ==
    pc = "done" =>
        /\ result.resp.model = call.model_name
        /\ result.resp.created_at = <<>>
        /\ result.resp.done = TRUE
        /\ result.resp.final_data = "None"

\* C7: a parse call starts at most one run; it starts one exactly when
\* extraction and the structural parse succeeded and a tool has the intent's
\* name, character for character; the tool run is the first of that name in
\* registry order, and the run starts after extraction, parse and lookup.
C7_AtMostOneRun ==
    /\ Len(runs) <= 1
    /\ pc # "idle" => (runs # <<>> <=> (Extracted.some /\ Intent.ok /\ Registered(Intent.name)))
    /\ runs # <<>> =>
          /\ tools[runs[1]].name = Intent.name
          /\ \A j \in 1..(runs[1] - 1) : tools[j].name # Intent.name
          /\ steps = <<"extract", "from_str", "find", "run">>
    /\ (pc = "done" /\ runs = <<>>) => steps[Len(steps)] # "run"

C7_Witness ==
    /\ pc = "done"
    /\ runs = <<2>>
    /\ Len(tools) = 3
    /\ tools[3].name = tools[2].name


(***************************************************************************)
(* Properties of the text functions (specification SpecText)               *)
(***************************************************************************)
Applied(op) == last.op = op /\ last.applied

\* C4: extract_tool_call leaves a valid single-braced JSON body as it is
\* but for its line breaks, also when closing braces are adjacent, and turns
\* the doubled form of the body into the body (line breaks removed).
C4_BraceNormalization ==
    (/\ Applied("extract_tool_call")
     /\ RegexCapture(last.arg).some
     /\ RegexCapture(last.arg).s = (IF last.doubled THEN Doubled(last.body) ELSE last.body)
     /\ FromStrValue(last.body).ok) =>
        /\ last.some
        /\ last.out = Replace(last.body, <<"\n">>, <<>>)

NoOuterWhitespace(s) == s = <<>> \/ (~IsWhitespace(s[1]) /\ ~IsWhitespace(s[Len(s)]))

\* s with one leading "```json" and one trailing "```" removed, when present
StripOneFence(s) ==
    LET t == IF StartsWith(s, FENCE_OPEN) THEN Drop(s, Len(FENCE_OPEN)) ELSE s
    IN  IF EndsWith(t, FENCE_CLOSE) THEN Take(t, Len(t) - Len(FENCE_CLOSE)) ELSE t

\* C10 as stated: clean_tool_call removes at most one leading "```json" and
\* at most one trailing "```" and the surrounding whitespace; a body B
\* without outer whitespace, alone or wrapped as
\* whitespace "```json" whitespace B whitespace "```" whitespace, yields B.
C10_AtMostOneFence ==
    Applied("clean_tool_call") =>
        /\ last.out = Trim(StripOneFence(Trim(last.arg)))
        /\ (NoOuterWhitespace(last.body) /\ last.opens = last.closes /\ last.opens <= 1) =>
              last.out = last.body

\* C10 amended: clean_tool_call removes every adjacent leading "```json"
\* and every adjacent trailing "```"; a body B without outer whitespace that
\* neither starts with "```json" nor ends with "```", wrapped in any number
\* of adjacent markers on either side with any whitespace around them and
\* around B, yields exactly B: braces and inner line breaks are kept.
C10_FencesStripped ==
    (/\ Applied("clean_tool_call")
     /\ NoOuterWhitespace(last.body)
     /\ ~StartsWith(last.body, FENCE_OPEN)
     /\ ~EndsWith(last.body, FENCE_CLOSE)) =>
        last.out = last.body

C10_Witness ==
    /\ Applied("clean_tool_call")
    /\ last.opens = 2 /\ last.closes = 1
    /\ last.body = <<"{","\n"," ","\"","n","a","m","e","\"",":"," ","\"","g","e","t","\""," ","}">>
    /\ IsWhitespace(last.arg[1])
    /\ last.out = last.body

TemplateOf(d) == IF d = "tiny" THEN Tiny_DEFAULT_SYSTEM_TEMPLATE ELSE OpenAI_DEFAULT_SYSTEM_TEMPLATE

\* the serialized tool list, cut out of the system message at the placeholder's place
SerializedTools ==
    LET tpl == TemplateOf(last.dialect)
        at == IndexOf(tpl, <<"{","t","o","o","l","s","}">>, 1)
    IN  SubSeq(last.out, at, Len(last.out) - (Len(tpl) - (at + Len(<<"{","t","o","o","l","s","}">>) - 1)))

\* entry is {"type": "function", "function": {name, description, parameters}} of tool
AdvertisesTool(entry, tool) ==
    /\ entry.t = "obj"
    /\ HasKey(entry, <<"t","y","p","e">>)
    /\ MapGet(entry, <<"t","y","p","e">>) = VStr(<<"f","u","n","c","t","i","o","n">>)
    /\ HasKey(entry, <<"f","u","n","c","t","i","o","n">>)
    /\ LET f == MapGet(entry, <<"f","u","n","c","t","i","o","n">>)
       IN  /\ HasKey(f, <<"n","a","m","e">>)
           /\ HasKey(f, <<"d","e","s","c","r","i","p","t","i","o","n">>)
           /\ HasKey(f, <<"p","a","r","a","m","e","t","e","r","s">>)
           /\ MapGet(f, <<"n","a","m","e">>) = VStr(tool.name)
           /\ MapGet(f, <<"d","e","s","c","r","i","p","t","i","o","n">>) = VStr(tool.description)
           /\ ValueEq(MapGet(f, <<"p","a","r","a","m","e","t","e","r","s">>), tool.parameters)

\* C9: the system message of either dialect holds, at the placeholder's
\* place, a JSON list with one entry per tool in registry order; reading
\* type, name, description and parameters back from the i-th entry gives
\* "function" and the i-th tool's name(), description() and parameters().
C9_AdvertisementRoundTrip ==
    Applied("get_system_message") =>
        LET parsed == FromStrValue(SerializedTools)
        IN  /\ last.role = "system"
            /\ parsed.ok
            /\ parsed.v.t = "arr"
            /\ Len(parsed.v.kids) = Len(tools)
            /\ \A i \in 1..Len(tools) : AdvertisesTool(parsed.v.kids[i].v, tools[i])

C9_Witness ==
    /\ Applied("get_system_message")
    /\ Len(tools) = 3
    /\ last.ord = "backward"
    /\ Contains(last.out, <<"\\","\"","w","e","a","t","h","e","r","\\","\"","\\","n">>)

(***************************************************************************)
(* Properties of format_query (specification SpecQuery)                    *)
(***************************************************************************)
TinyQueries == SelectSeq(fqLog, LAMBDA e : e.dialect = "tiny")

FirstTurnNote == <<"T","h","i","s"," ","i","s"," ","t","h","e"," ","f","i","r","s","t"," ","t","u","r","n"," ","a","n","d"," ","y","o","u"," ","d","o","n","'","t"," ","h","a","v","e"," ","<","t","o","o","l","_","r","e","s","u","l","t","s",">"," ","t","o"," ","a","n","a","l","y","z","e"," ","y","e","t">>

\* C8 as stated: of the TaggedBlock format_query calls of a conversation the
\* first returns the user text followed by the note and every later one the
\* user text alone.
C8_NoteOnFirstTurnOnly ==
    \A i \in 1..Len(TinyQueries) :
        TinyQueries[i].out =
            IF i = 1 THEN TinyQueries[i].input \o <<"\n">> \o FirstTurnNote
            ELSE TinyQueries[i].input

\* C8 amended: every TaggedBlock format_query call, the first and the later
\* ones alike, returns the user text, a line break and the note; the
\* FencedJSON dialect returns the user text unchanged.
C8_NoteOnEveryCall ==
    \A i \in 1..Len(fqLog) :
        fqLog[i].out =
            IF fqLog[i].dialect = "tiny"
            THEN fqLog[i].input \o <<"\n">> \o FirstTurnNote
            ELSE fqLog[i].input

C8_Witness ==
    /\ Len(fqLog) = 3
    /\ \A i \in 1..3 : fqLog[i].dialect = "tiny"
    /\ EndsWith(fqLog[3].out, FirstTurnNote)

====
